---- MODULE Spec2Model ----
(***************************************************************************)
(* swingline.c: a Voronoi diagram rendered by drawing one depth-tested     *)
(* cone per seed into an offscreen target, then blitted to the window      *)
(* once per frame.                                                         *)
(*                                                                         *)
(* Numbers.  A C float is a fixed-point integer with One units per 1.0;    *)
(* the doubles of the libm calls carry Fine units per 1.0 and are rounded  *)
(* to One when stored into a float buffer.  A seed offset is the numerator *)
(* of a fraction over RAND_MAX; pixel centres share the ClipScale denominator.  *)
(* Colour channels are the 8-bit values the GL_RGB texture stores.         *)
(* A depth value is the window depth in units of 1/(2*One): 0 is the near  *)
(* plane (clip z = -1) and DepthFar the far plane (clip z = +1).           *)
(***************************************************************************)
EXTENDS Integers, Sequences, FiniteSets, TLC

(* ------------------------------ bounds -------------------------------- *)

\* cone_res is drawn from 3..MaxConeRes (the program fixes 64).
MaxConeRes == 4

\* point_count is drawn from 1..MaxPoints (the program fixes 100).
MaxPoints == 2

\* rand() returns 0..RAND_MAX (the C library's value is at least 32767).
RAND_MAX == 2

\* The window and the offscreen textures are width x height pixels (the
\* program fixes 400 x 400).
width == 4

height == width

\* Frames the render loop is followed for.
MaxFrames == 2

\* The instance ids fed to the vertex shader on its own take each byte from
\* 0..EncEdge and 255-EncEdge..255.
EncEdge == 1

(* ---------------------------- fixed point ----------------------------- *)

One == 10 * 10

Fine == One * One

\* A double rounded to the nearest float.
ToFloat(d) == (d + (Fine \div One) \div 2) \div (Fine \div One)

FMul(a, b) == (a * b) \div Fine

\* M_PI at Fine units: 355/113 = 3.14159...
M_PI == (355 * Fine) \div 113

HalfPi == M_PI \div 2

\* sin and cos of x in [0, pi/2], by their power series.
SinQ(x) ==
    LET x2 == FMul(x, x)
        x3 == FMul(x2, x)
        x5 == FMul(x3, x2)
        x7 == FMul(x5, x2)
        x9 == FMul(x7, x2)
    IN  x - x3 \div 6 + x5 \div 120 - x7 \div 5040 + x9 \div 362880

CosQ(x) ==
    LET x2 == FMul(x, x)
        x4 == FMul(x2, x2)
        x6 == FMul(x4, x2)
        x8 == FMul(x6, x2)
    IN  Fine - x2 \div 2 + x4 \div 24 - x6 \div 720 + x8 \div 40320

\* cos(angle) and sin(angle) for angle in [0, 2*pi], reduced by quadrant.
cos(angle) ==
    LET q == (angle \div HalfPi) % 4
        x == angle % HalfPi
    IN  CASE q = 0 -> CosQ(x)
          [] q = 1 -> - SinQ(x)
          [] q = 2 -> - CosQ(x)
          [] OTHER -> SinQ(x)

sin(angle) ==
    LET q == (angle \div HalfPi) % 4
        x == angle % HalfPi
    IN  CASE q = 0 -> SinQ(x)
          [] q = 1 -> CosQ(x)
          [] q = 2 -> - SinQ(x)
          [] OTHER -> - CosQ(x)

(* -------------------------- voronoi_vert_src -------------------------- *)

\* int r, g, b of the vertex shader, from gl_InstanceID.
InstanceRGBWrongRadix(id) == << id % 256, (id \div 255) % 256, (id \div 65536) % 256 >>

InstanceRGB(id) == << id % 256, (id \div 256) % 256, (id \div 65536) % 256 >>

\* r / 255.0f: the channel as a normalised float.
Normalize(c) == (c * Fine) \div 255

\* color_ = vec3(r / 255.0f, g / 255.0f, b / 255.0f)
InstanceColor(id) ==
    LET rgb == InstanceRGB(id)
    IN  << Normalize(rgb[1]), Normalize(rgb[2]), Normalize(rgb[3]) >>

\* A normalised float channel written to an 8-bit texture: round(f * 255).
ToUnorm8(f) ==
    LET v == (f * 255 + Fine \div 2) \div Fine
    IN  IF v < 0 THEN 0 ELSE IF v > 255 THEN 255 ELSE v

StoreRGB(c) == << ToUnorm8(c[1]), ToUnorm8(c[2]), ToUnorm8(c[3]) >>

(* ----------------------------- build_cone ----------------------------- *)

\* A malloc'd float buffer of `floats` elements: data, the set of indices
\* written so far, the number of stores, and whether a store fell outside.
NewBuf(floats) ==
    [data |-> [x \in 1..floats |-> 0], written |-> {}, stores |-> 0, oob |-> FALSE]

\* buf[idx] = val
BufStore(b, idx, val) ==
    IF idx >= 0 /\ idx < Len(b.data)
    THEN [b EXCEPT !.data[idx + 1] = val,
                   !.written = @ \cup {idx},
                   !.stores = @ + 1]
    ELSE [b EXCEPT !.oob = TRUE, !.stores = @ + 1]

\* The number of floats build_cone allocates: bytes / sizeof(float).
ConeFloats(n) == (n + 2) * 3

\* float angle = 2 * M_PI * i / n
ConeAngle(i, n) == (2 * M_PI * i) \div n

ConeLoopCondOffByOne(i, n) == i <= n + 1

\* The loop condition of build_cone: i <= n
ConeLoopCond(i, n) == i <= n

RECURSIVE ConeLoop(_, _, _)
ConeLoop(b, i, n) ==
    IF ConeLoopCond(i, n)
    THEN LET angle == ConeAngle(i, n)
             b1 == BufStore(b, i * 3 + 3, ToFloat(cos(angle)))
             b2 == BufStore(b1, i * 3 + 4, ToFloat(sin(angle)))
             b3 == BufStore(b2, i * 3 + 5, One)
         IN  ConeLoop(b3, i + 1, n)
    ELSE b

\* The buffer build_cone(n) has filled when it hands it to glBufferData; b0 is
\* what malloc returned.
ConeBuf(n, b0) ==
    LET b1 == BufStore(b0, 0, 0)
        b2 == BufStore(b1, 1, 0)
        b3 == BufStore(b2, 2, - One)
    IN  ConeLoop(b3, 0, n)

(* --------------------------- build_instances -------------------------- *)

\* The number of floats build_instances allocates.
InstanceFloats(n) == n * 2

OffsetNumNoCentre(r) == 2 * r

\* ((float)rand() / RAND_MAX - 0.5) * 2 for rand() = r, as the numerator
\* of a fraction over RAND_MAX: (r/RAND_MAX - 1/2) * 2 = (2r - RAND_MAX)/RAND_MAX.
OffsetNum(r) == 2 * r - RAND_MAX

RECURSIVE InstanceLoop(_, _, _, _)
InstanceLoop(b, i, n, rs) ==
    IF i < 2 * n
    THEN InstanceLoop(BufStore(b, i, OffsetNum(rs[i + 1])), i + 1, n, rs)
    ELSE b

\* The buffer build_instances(n) has filled; rs are the 2n values of rand()
\* and b0 is what malloc returned.
InstanceBuf(n, rs, b0) == InstanceLoop(b0, 0, n, rs)

(* ------------------------------ GL names ------------------------------ *)

\* The names glGenVertexArrays, glCreateProgram, glGenFramebuffers and
\* glGenTextures hand out; 0 is "nothing bound" / the default framebuffer.
voronoi_vao == 1

quad_vao == 2

voronoi_program == 3

blit_program == 6

voronoi_fbo == 2

voronoi_tex == 1

voronoi_depth == 2

(* ---------------------------- the GL context -------------------------- *)

Pixels == (0 .. width - 1) \X (0 .. height - 1)

\* The contents of storage nothing has written yet.
Undefined == << -1, -1, -1 >>

\* glClearDepth(1.0f) and the context's initial clear depth.
DepthFar == 2 * One

\* The context glfwMakeContextCurrent leaves: nothing bound, depth test off,
\* depth function GL_LESS, clear colour (0,0,0,0), clear depth 1, uniforms 0.
\* offColor/offDepth are the storage of voronoi_tex and voronoi_depth;
\* backColor/backDepth/frontColor that of the window's framebuffer.
InitialContext ==
    [fbo |-> 0, program |-> 0, vao |-> 0, activeTexture |-> 0, tex0 |-> 0,
     sampler |-> 0, depthTest |-> FALSE,
     clearColor |-> << 0, 0, 0 >>, clearDepth |-> DepthFar,
     coneVbo |-> << >>, instVbo |-> << >>,
     offColor |-> [p \in Pixels |-> Undefined],
     offDepth |-> [p \in Pixels |-> DepthFar],
     backColor |-> [p \in Pixels |-> Undefined],
     backDepth |-> [p \in Pixels |-> DepthFar],
     frontColor |-> [p \in Pixels |-> Undefined],
     drawCount |-> 0, drawInstances |-> 0]

\* The colour and depth storage draws and clears go to: that of the bound
\* framebuffer.
TargetColor(g) == IF g.fbo = voronoi_fbo THEN g.offColor ELSE g.backColor

TargetDepth(g) == IF g.fbo = voronoi_fbo THEN g.offDepth ELSE g.backDepth

WithTarget(g, color, depth) ==
    IF g.fbo = voronoi_fbo
    THEN [g EXCEPT !.offColor = color, !.offDepth = depth]
    ELSE [g EXCEPT !.backColor = color, !.backDepth = depth]

\* glClear(GL_COLOR_BUFFER_BIT | GL_DEPTH_BUFFER_BIT)
glClear(g) ==
    WithTarget(g, [p \in Pixels |-> StoreRGB(g.clearColor)],
                  [p \in Pixels |-> g.clearDepth])

DepthTestLequal(frag, stored) == frag <= stored

\* The depth function in force: GL_LESS, the default, which the program
\* never changes.
DepthTestPasses(frag, stored) == frag < stored

(* ------------------ rasterising the instanced cone fan ---------------- *)

\* Positions are compared in units of 1/(ClipScale * One).
ClipScale == RAND_MAX * width * height

\* The clip-space centre of pixel p.
PixelCentre(p) ==
    << (2 * p[1] + 1 - width) * RAND_MAX * height * One,
       (2 * p[2] + 1 - height) * RAND_MAX * width * One >>

\* Vertex q of the cone buffer (attribute 0, 3 floats per vertex).
Vertex(vbo, q) == << vbo[3 * q + 1], vbo[3 * q + 2], vbo[3 * q + 3] >>

\* The offset of instance k (attribute 1, 2 floats, divisor 1).
Offset(ivbo, k) == << ivbo[2 * k + 1], ivbo[2 * k + 2] >>

\* gl_Position.xy = pos.xy + offset, for the fan's first vertex.
ApexClip(pos, off) ==
    << pos[1] * ClipScale + off[1] * width * height * One,
       pos[2] * ClipScale + off[2] * width * height * One >>

\* Triangle m of the fan (vertices 0, m+1, m+2) of instance k, set up for
\* rasterisation: its first vertex in clip space, its two edges from that
\* vertex, its oriented area, the vertices' z, and the instance's colour.
TriangleSetup(g, k, m) ==
    LET v0 == Vertex(g.coneVbo, 0)
        v1 == Vertex(g.coneVbo, m + 1)
        v2 == Vertex(g.coneVbo, m + 2)
        c0 == ApexClip(v0, Offset(g.instVbo, k))
        e1x == v1[1] - v0[1]
        e1y == v1[2] - v0[2]
        e2x == v2[1] - v0[1]
        e2y == v2[2] - v0[2]
        det == e1x * e2y - e1y * e2x
        sgn == IF det < 0 THEN -1 ELSE 1
    IN  [c0x |-> c0[1], c0y |-> c0[2],
         e1x |-> sgn * e1x, e1y |-> sgn * e1y,
         e2x |-> sgn * e2x, e2y |-> sgn * e2y,
         area |-> sgn * det * ClipScale,
         z0 |-> v0[3], dz1 |-> v1[3] - v0[3], dz2 |-> v2[3] - v0[3],
         color |-> StoreRGB(InstanceColor(k))]

\* The primitives of glDrawArraysInstanced(GL_TRIANGLE_FAN, 0, count,
\* instances) in the order they are rasterised: primitive t is triangle
\* t % (count-2) of instance t \div (count-2).
Primitives(g, count, instances) ==
    [t \in 0 .. instances * (count - 2) - 1 |->
        TriangleSetup(g, t \div (count - 2), t % (count - 2))]

\* The fragment a triangle produces at the pixel centre c: whether the
\* centre is inside (a and b are its barycentric weights times area), and
\* the window depth interpolated from the vertices' z.
Fragment(tri, c) ==
    LET rx == c[1] - tri.c0x
        ry == c[2] - tri.c0y
        a == rx * tri.e2y - ry * tri.e2x
        b == tri.e1x * ry - tri.e1y * rx
        z == (tri.z0 * tri.area + tri.dz1 * a + tri.dz2 * b) \div tri.area
    IN  IF tri.area > 0 /\ a >= 0 /\ b >= 0 /\ a + b <= tri.area
           /\ z >= - One /\ z <= One
        THEN z + One
        ELSE -1

\* One pixel of the instanced draw: each primitive's fragment in turn,
\* against what the pixel holds by then.  A fragment is kept when the depth
\* test is off or passes; depth is written only with the test on.
RECURSIVE RasterPixel(_, _, _, _, _)
RasterPixel(tris, depthTest, c, t, cur) ==
    IF t \notin DOMAIN tris
    THEN cur
    ELSE LET d == Fragment(tris[t], c)
         IN  IF d >= 0 /\ (depthTest => DepthTestPasses(d, cur.depth))
             THEN RasterPixel(tris, depthTest, c, t + 1,
                      [color |-> tris[t].color,
                       depth |-> IF depthTest THEN d ELSE cur.depth])
             ELSE RasterPixel(tris, depthTest, c, t + 1, cur)

glDrawArraysInstanced(g, count, instances) ==
    LET g1 == [g EXCEPT !.drawCount = count, !.drawInstances = instances]
        tris == Primitives(g, count, instances)
        px == [p \in Pixels |->
                 RasterPixel(tris, g.depthTest, PixelCentre(p), 0,
                     [color |-> TargetColor(g)[p], depth |-> TargetDepth(g)[p]])]
    IN  IF g.program = voronoi_program /\ g.vao = voronoi_vao /\ count >= 3
        THEN WithTarget(g1, [p \in Pixels |-> px[p].color],
                            [p \in Pixels |-> px[p].depth])
        ELSE g1

(* ------------------------- the fullscreen blit ------------------------ *)

\* texelFetch(tex, ivec2(gl_FragCoord.xy), 0): the texel of the texture on
\* the unit the sampler names; a unit with no texture reads as black.
TexelFetch(g, p) ==
    LET t == IF g.sampler = 0 /\ g.tex0 = voronoi_tex THEN g.offColor[p]
             ELSE << 0, 0, 0 >>
    IN  << Normalize(t[1]), Normalize(t[2]), Normalize(t[3]) >>

\* glDrawArrays(GL_TRIANGLE_FAN, 0, 4) under the blit program and the quad:
\* the quad (-1,-1) (1,-1) (1,1) (-1,1) at clip z = 0 covers every pixel.
glDrawArrays(g, count) ==
    LET pass(p) == g.depthTest => DepthTestPasses(One, TargetDepth(g)[p])
    IN  IF g.program = blit_program /\ g.vao = quad_vao /\ count = 4
        THEN WithTarget(g,
                 [p \in Pixels |-> IF pass(p) THEN StoreRGB(TexelFetch(g, p))
                                              ELSE TargetColor(g)[p]],
                 [p \in Pixels |-> IF g.depthTest /\ pass(p) THEN One
                                              ELSE TargetDepth(g)[p]])
        ELSE g

\* glfwSwapBuffers: the back buffer is shown; what the new back buffer
\* holds is undefined.
glfwSwapBuffers(g) ==
    [g EXCEPT !.frontColor = g.backColor,
              !.backColor = [p \in Pixels |-> Undefined]]

(* ---------------------------- render_voronoi -------------------------- *)

UnbindFramebufferForgotten(g) == g

\* glBindFramebuffer(GL_FRAMEBUFFER, 0) at the end of render_voronoi.
UnbindFramebuffer(g) == [g EXCEPT !.fbo = 0]

render_voronoi(g, program, fbo, vao, res, points) ==
    LET g1 == [g EXCEPT !.fbo = fbo,
                        !.depthTest = TRUE,
                        !.clearColor = << Fine, Fine, 0 >>,
                        !.clearDepth = DepthFar]
        g2 == glClear(g1)
        g3 == [g2 EXCEPT !.program = program, !.vao = vao]
        g4 == glDrawArraysInstanced(g3, res + 2, points)
        g5 == [g4 EXCEPT !.vao = 0, !.program = 0]
    IN  UnbindFramebuffer(g5)

(* ------------------------------ the process --------------------------- *)

VARIABLES
    pc,           \* where main is
    cone_res,     \* main's configuration constants
    point_count,
    shouldClose,  \* the window's close flag
    stderr,       \* the diagnostics written so far
    exitStatus,   \* the process's exit status, once pc is exited/returned/crashed
    fault,        \* the startup failures the environment has produced so far
    compiled,     \* the shader stages of the current program compiled so far
    gl,           \* the GL context and the storage of its objects
    cone_buf,     \* build_cone's malloc'd buffer as it was handed to glBufferData
    inst_buf,     \* build_instances' malloc'd buffer, likewise
    calls,        \* how often each pass and each call of the loop body has run
    kIn,          \* the vertex shader on its own: gl_InstanceID
    colorOut      \* ... and the texel its colour is stored as

vars == << pc, cone_res, point_count, shouldClose, stderr, exitStatus, fault,
           compiled, gl, cone_buf, inst_buf, calls, kIn, colorOut >>

\* exit(-1), as the parent process sees it.
ExitFailure == 255

\* The signal a store through a null pointer raises.
SIGSEGV == 11

\* What malloc returned when it returned NULL: no element can be stored.
NullBuf == [data |-> << >>, written |-> {}, stores |-> 0, oob |-> FALSE]

NoCalls == [voronoi |-> 0, iter |-> 0, clear |-> 0, draw |-> 0, swap |-> 0]

Init ==
    /\ pc = "make_context"
    /\ cone_res \in 3 .. MaxConeRes
    /\ point_count \in 1 .. MaxPoints
    /\ shouldClose = FALSE
    /\ stderr = << >>
    /\ exitStatus = 0
    /\ fault = {}
    /\ compiled = {}
    /\ gl = InitialContext
    /\ cone_buf = NullBuf
    /\ inst_buf = NullBuf
    /\ calls = NoCalls
    /\ kIn = 0
    /\ colorOut = Undefined

\* The process has ended: its buffers and its GL context are gone.
Gone ==
    /\ gl' = InitialContext
    /\ cone_buf' = NullBuf
    /\ inst_buf' = NullBuf
    /\ compiled' = {}

\* fprintf(stderr, msg); exit(-1);
Die(msg) ==
    /\ stderr' = Append(stderr, msg)
    /\ exitStatus' = ExitFailure
    /\ pc' = "exited"
    /\ Gone

\* The process is killed by the signal; nothing is printed.
Crash ==
    /\ pc' = "crashed"
    /\ exitStatus' = 128 + SIGSEGV
    /\ UNCHANGED stderr
    /\ Gone

Continue(next) ==
    /\ pc' = next
    /\ UNCHANGED << stderr, exitStatus >>

\* make_context(width, height)
make_context ==
    /\ pc = "make_context"
    /\ \E r \in {"ok", "glfwInit", "glfwCreateWindow", "GL_VERSION"} :
          CASE r = "ok" ->
                 /\ Continue("build_cone")
                 /\ UNCHANGED << fault, gl, cone_buf, inst_buf, compiled >>
            [] r = "glfwInit" ->
                 Die("Error: Failed to initialize GLFW!") /\ fault' = fault \cup {r}
            [] r = "glfwCreateWindow" ->
                 Die("Error:  Failed to create window") /\ fault' = fault \cup {r}
            [] OTHER ->
                 Die("Error: OpenGL context is too old") /\ fault' = fault \cup {r}
    /\ UNCHANGED << cone_res, point_count, shouldClose, calls, kIn, colorOut >>

\* What the buffer object glBufferData(.., bytes, buf, ..) creates holds:
\* the floats of buf; with buf = NULL its contents are undefined, and the
\* fresh data store is taken to read as zeros.
BufferData(b, floats) ==
    IF Len(b.data) = floats THEN b.data ELSE [x \in 1 .. floats |-> 0]

\* main 296-299: glGenVertexArrays, glBindVertexArray, build_cone(cone_res).
\* malloc's result is not tested: with NULL the stores are undefined
\* behaviour, which kills the process or goes unnoticed.
build_cone ==
    /\ pc = "build_cone"
    /\ \E m \in {"ok", "null"} :
          LET b == ConeBuf(cone_res,
                           IF m = "ok" THEN NewBuf(ConeFloats(cone_res)) ELSE NullBuf)
          IN  /\ fault' = IF m = "ok" THEN fault ELSE fault \cup {"malloc build_cone"}
              /\ \/ /\ gl' = [gl EXCEPT !.vao = voronoi_vao,
                                         !.coneVbo = BufferData(b, ConeFloats(cone_res))]
                    /\ cone_buf' = b
                    /\ Continue("build_instances")
                    /\ UNCHANGED << inst_buf, compiled >>
                 \/ /\ m = "null"
                    /\ Crash
    /\ UNCHANGED << cone_res, point_count, shouldClose, calls, kIn, colorOut >>

\* main 300-301: build_instances(point_count), glBindVertexArray(0).
build_instances ==
    /\ pc = "build_instances"
    /\ \E m \in {"ok", "null"}, rs \in [1 .. 2 * point_count -> 0 .. RAND_MAX] :
          LET b == InstanceBuf(point_count, rs,
                       IF m = "ok" THEN NewBuf(InstanceFloats(point_count)) ELSE NullBuf)
          IN  /\ fault' = IF m = "ok" THEN fault
                          ELSE fault \cup {"malloc build_instances"}
              /\ \/ /\ gl' = [gl EXCEPT !.vao = 0,
                                 !.instVbo = BufferData(b, InstanceFloats(point_count))]
                    /\ inst_buf' = b
                    /\ Continue("voronoi_shaders")
                    /\ UNCHANGED << cone_buf, compiled >>
                 \/ /\ m = "null"
                    /\ Crash
    /\ UNCHANGED << cone_res, point_count, shouldClose, calls, kIn, colorOut >>

ShaderTypes == {"GL_VERTEX_SHADER", "GL_FRAGMENT_SHADER"}

\* build_shader(type, src) for one of the two arguments of build_program;
\* C leaves the order in which the arguments are evaluated open.  On a
\* compile failure the log buffer's malloc is not tested either: with NULL,
\* glGetShaderInfoLog and fprintf("%s") are handed a null pointer.
build_shader ==
    /\ pc \in {"voronoi_shaders", "blit_shaders"}
    /\ \E type \in ShaderTypes \ compiled :
       \E status \in {"GL_TRUE", "GL_FALSE", "GL_FALSE, malloc NULL"} :
          CASE status = "GL_TRUE" ->
                 /\ compiled' = IF compiled \cup {type} = ShaderTypes THEN {}
                                ELSE compiled \cup {type}
                 /\ Continue(IF compiled \cup {type} # ShaderTypes THEN pc
                             ELSE IF pc = "voronoi_shaders" THEN "voronoi_link"
                             ELSE "blit_link")
                 /\ UNCHANGED << fault, gl, cone_buf, inst_buf >>
            [] status = "GL_FALSE" ->
                 /\ Die("Error: shader failed with error")
                 /\ fault' = fault \cup {"compile"}
            [] OTHER ->
                 /\ \/ Die("Error: shader failed with error")
                    \/ Crash
                 /\ fault' = fault \cup {"compile", "malloc info_log"}
    /\ UNCHANGED << cone_res, point_count, shouldClose, calls, kIn, colorOut >>

\* build_program(vert, frag)
build_program ==
    /\ pc \in {"voronoi_link", "blit_link"}
    /\ \E status \in {"GL_TRUE", "GL_FALSE", "GL_FALSE, malloc NULL"} :
          CASE status = "GL_TRUE" ->
                 /\ Continue(IF pc = "voronoi_link" THEN "offscreen" ELSE "build_quad")
                 /\ UNCHANGED << fault, gl, cone_buf, inst_buf, compiled >>
            [] status = "GL_FALSE" ->
                 /\ Die("Error: linking failed with error")
                 /\ fault' = fault \cup {"link"}
            [] OTHER ->
                 /\ \/ Die("Error: linking failed with error")
                    \/ Crash
                 /\ fault' = fault \cup {"link", "malloc info_log"}
    /\ UNCHANGED << cone_res, point_count, shouldClose, calls, kIn, colorOut >>

\* main 307-335: the two textures, the framebuffer object, its attachments
\* and the completeness check.  The textures' storage is allocated with no
\* data; every binding made here is undone.
make_offscreen ==
    /\ pc = "offscreen"
    /\ \E status \in {"GL_FRAMEBUFFER_COMPLETE", "incomplete"} :
          IF status = "GL_FRAMEBUFFER_COMPLETE"
          THEN /\ gl' = [gl EXCEPT !.fbo = 0, !.tex0 = 0]
               /\ Continue("blit_shaders")
               /\ UNCHANGED << fault, cone_buf, inst_buf, compiled >>
          ELSE /\ Die("Error: framebuffer is incomplete")
               /\ fault' = fault \cup {"framebuffer"}
    /\ UNCHANGED << cone_res, point_count, shouldClose, calls, kIn, colorOut >>

\* build_quad(): binds the quad's vertex array and unbinds it again.
build_quad ==
    /\ pc = "build_quad"
    /\ gl' = [gl EXCEPT !.vao = 0]
    /\ Continue("render_voronoi")
    /\ UNCHANGED << cone_res, point_count, shouldClose, fault, compiled,
                    cone_buf, inst_buf, calls, kIn, colorOut >>

\* main 346-347: the offscreen pass.
offscreen_pass ==
    /\ pc = "render_voronoi"
    /\ gl' = render_voronoi(gl, voronoi_program, voronoi_fbo, voronoi_vao,
                            cone_res, point_count)
    /\ calls' = [calls EXCEPT !.voronoi = @ + 1]
    /\ Continue("present_setup")
    /\ UNCHANGED << cone_res, point_count, shouldClose, fault, compiled,
                    cone_buf, inst_buf, kIn, colorOut >>

SetupWrongUnit(g) ==
    [g EXCEPT !.program = blit_program, !.vao = quad_vao, !.activeTexture = 1,
              !.sampler = 0,
              !.clearColor = << 0, 0, 0 >>, !.clearDepth = DepthFar]

\* main 351-358: the bindings and clear values of the present pass.
PresentSetup(g) ==
    [g EXCEPT !.program = blit_program, !.vao = quad_vao, !.activeTexture = 0,
              !.tex0 = voronoi_tex, !.sampler = 0,
              !.clearColor = << 0, 0, 0 >>, !.clearDepth = DepthFar]

present_setup ==
    /\ pc = "present_setup"
    /\ gl' = PresentSetup(gl)
    /\ Continue("loop_test")
    /\ UNCHANGED << cone_res, point_count, shouldClose, fault, compiled,
                    cone_buf, inst_buf, calls, kIn, colorOut >>

LoopExitsNever(close) == FALSE

\* while (!glfwWindowShouldClose(win)): whether the loop is left.
LoopExits(close) == close

\* The loop test, and return 0 when the loop is left.  The loop is
\* followed for MaxFrames iterations.
loop_test ==
    /\ pc = "loop_test"
    /\ \/ /\ LoopExits(shouldClose)
          /\ pc' = "returned"
          /\ exitStatus' = 0
          /\ Gone
          /\ UNCHANGED << stderr, calls >>
       \/ /\ ~ LoopExits(shouldClose)
          /\ calls.iter < MaxFrames
          /\ calls' = [calls EXCEPT !.iter = @ + 1]
          /\ Continue("glClear")
          /\ UNCHANGED << gl, cone_buf, inst_buf, compiled >>
    /\ UNCHANGED << cone_res, point_count, shouldClose, fault, kIn, colorOut >>

\* glClear(GL_COLOR_BUFFER_BIT | GL_DEPTH_BUFFER_BIT) of the loop body
loop_clear ==
    /\ pc = "glClear"
    /\ gl' = glClear(gl)
    /\ calls' = [calls EXCEPT !.clear = @ + 1]
    /\ Continue("glDrawArrays")
    /\ UNCHANGED << cone_res, point_count, shouldClose, fault, compiled,
                    cone_buf, inst_buf, kIn, colorOut >>

\* glDrawArrays(GL_TRIANGLE_FAN, 0, 4)
loop_draw ==
    /\ pc = "glDrawArrays"
    /\ gl' = glDrawArrays(gl, 4)
    /\ calls' = [calls EXCEPT !.draw = @ + 1]
    /\ Continue("glfwSwapBuffers")
    /\ UNCHANGED << cone_res, point_count, shouldClose, fault, compiled,
                    cone_buf, inst_buf, kIn, colorOut >>

\* glfwSwapBuffers(win)
loop_swap ==
    /\ pc = "glfwSwapBuffers"
    /\ gl' = glfwSwapBuffers(gl)
    /\ calls' = [calls EXCEPT !.swap = @ + 1]
    /\ Continue("glfwPollEvents")
    /\ UNCHANGED << cone_res, point_count, shouldClose, fault, compiled,
                    cone_buf, inst_buf, kIn, colorOut >>

\* glfwPollEvents(): a close request among the events sets the flag.
loop_poll ==
    /\ pc = "glfwPollEvents"
    /\ \E close \in BOOLEAN : shouldClose' = (shouldClose \/ close)
    /\ Continue("loop_test")
    /\ UNCHANGED << cone_res, point_count, fault, compiled, gl, cone_buf,
                    inst_buf, calls, kIn, colorOut >>

Next ==
    \/ make_context
    \/ build_cone
    \/ build_instances
    \/ build_shader
    \/ build_program
    \/ make_offscreen
    \/ build_quad
    \/ offscreen_pass
    \/ present_setup
    \/ loop_test
    \/ loop_clear
    \/ loop_draw
    \/ loop_swap
    \/ loop_poll

Spec == Init /\ [][Next]_vars

(* ---------------------- the vertex shader on its own ------------------ *)

ByteEdges == (0 .. EncEdge) \cup (255 - EncEdge .. 255)

\* Instance ids around every byte boundary, below and from 2^24 on.
EncodeInputs ==
    { lo + 256 * mid + 65536 * hi :
        lo \in ByteEdges, mid \in ByteEdges,
        hi \in ByteEdges \cup (256 .. 256 + EncEdge) }

InitShader ==
    /\ pc = "vertex_shader"
    /\ kIn \in EncodeInputs
    /\ colorOut = Undefined
    /\ cone_res = 3
    /\ point_count = 1
    /\ shouldClose = FALSE
    /\ stderr = << >>
    /\ exitStatus = 0
    /\ fault = {}
    /\ compiled = {}
    /\ gl = InitialContext
    /\ cone_buf = NullBuf
    /\ inst_buf = NullBuf
    /\ calls = NoCalls

\* The voronoi shaders run for gl_InstanceID = kIn and the fragment's colour
\* is stored into a texel of the GL_RGB texture.
run_shader ==
    /\ pc = "vertex_shader"
    /\ colorOut' = StoreRGB(InstanceColor(kIn))
    /\ pc' = "shaded"
    /\ UNCHANGED << cone_res, point_count, shouldClose, stderr, exitStatus,
                    fault, compiled, gl, cone_buf, inst_buf, calls, kIn >>

NextShader == run_shader

SpecShader == InitShader /\ [][NextShader]_vars

(* ------------------------------- claims ------------------------------- *)

Ended == {"exited", "crashed", "returned"}

InLoop == {"loop_test", "glClear", "glDrawArrays", "glfwSwapBuffers", "glfwPollEvents"}

\* C1: the offscreen pass runs once, before any present pass; every loop
\* iteration entered with the window open runs clear, draw and swap once;
\* once the close flag is set no call of the present pass runs any more and
\* the next loop test leaves the loop and returns.
C1_PassSchedule ==
    /\ [](/\ calls.voronoi <= 1
          /\ (pc \in InLoop \cup {"returned"}) => calls.voronoi = 1
          /\ (calls.iter > 0 \/ calls.clear > 0) => calls.voronoi = 1
          /\ pc = "returned" => shouldClose
          /\ (pc \in {"loop_test", "glfwPollEvents", "returned"}) =>
                (calls.clear = calls.iter /\ calls.draw = calls.iter
                    /\ calls.swap = calls.iter)
          /\ shouldClose => pc \in {"loop_test", "returned"})
    /\ [][/\ shouldClose => (calls' = calls /\ pc' = "returned")
          /\ (pc = "loop_test" /\ ~ shouldClose) =>
                (pc' = "glClear" /\ calls'.iter = calls.iter + 1)
          /\ pc = "glClear" => (pc' = "glDrawArrays" /\ calls'.clear = calls.clear + 1)
          /\ pc = "glDrawArrays" =>
                (pc' = "glfwSwapBuffers" /\ calls'.draw = calls.draw + 1)
          /\ pc = "glfwSwapBuffers" => calls'.swap = calls.swap + 1]_vars

\* C1 witness: main has returned after MaxFrames frames were presented.
C1_Witness ==
    pc = "returned" /\ calls.swap = MaxFrames /\ calls.voronoi = 1

\* r + 256*g + 65536*b of a stored texel.
Decode(rgb) == rgb[1] + 256 * rgb[2] + 65536 * rgb[3]

SquaredDistance(p, off) ==
    LET dx == (2 * p[1] + 1 - width) * RAND_MAX * height - off[1] * width * height
        dy == (2 * p[2] + 1 - height) * RAND_MAX * width - off[2] * width * height
    IN  dx * dx + dy * dy

\* cos(pi/N)^2 at Fine units: how much nearer than the unit circle the
\* N-gon's edges come, squared.
Tessellation(n) == FMul(cos(ConeAngle(1, 2 * n)), cos(ConeAngle(1, 2 * n)))

\* C2 (the claim as stated): after the offscreen pass of a run without
\* startup failure, every pixel decodes to an instance index below M whose
\* seed is nearest to the pixel centre, up to the factor cos(pi/N) by which
\* the tessellated cone differs from the round one.
C2_NearestSeedEverywhere ==
    (pc = "present_setup" /\ fault = {}) =>
        \A p \in Pixels :
            LET k == Decode(gl.offColor[p])
            IN  /\ k < point_count
                /\ \A j \in 0 .. point_count - 1 :
                      SquaredDistance(p, Offset(gl.instVbo, k)) * Tessellation(cone_res)
                          <= SquaredDistance(p, Offset(gl.instVbo, j)) * Fine

\* The colour the offscreen pass clears to, as stored: (1, 1, 0).
ClearYellow == << 255, 255, 0 >>

\* C3 (the claim as stated): after the offscreen pass of a run without
\* startup failure no pixel keeps the clear colour, and with the single
\* seed (0,0) every pixel decodes to instance 0.
C3_EveryPixelCovered ==
    (pc = "present_setup" /\ fault = {}) =>
        \A p \in Pixels :
            /\ gl.offColor[p] # ClearYellow
            /\ (point_count = 1 /\ Offset(gl.instVbo, 0) = << 0, 0 >>)
                  => Decode(gl.offColor[p]) = 0

\* C4: for every instance id below 2^24 the texel stored for it decodes back
\* to the id, and no other id below 2^24 is stored as the same texel.
C4_EncodeDecode ==
    (pc = "shaded" /\ kIn < 16777216) =>
        /\ Decode(colorOut) = kIn
        /\ \A j \in EncodeInputs :
              (j < 16777216 /\ StoreRGB(InstanceColor(j)) = colorOut) => j = kIn

\* C4 witness: the largest id, 2^24 - 1, has been shaded to white.
C4_Witness ==
    pc = "shaded" /\ kIn = 16777215 /\ colorOut = << 255, 255, 255 >>

\* The depths of the fragments instance k produces at pixel p.
InstanceDepths(tris, count, k, p) ==
    { Fragment(tris[t], PixelCentre(p)) :
        t \in k * (count - 2) .. (k + 1) * (count - 2) - 1 } \ {-1}

Min(S) == CHOOSE x \in S : \A y \in S : x <= y

\* The instances whose cone reaches the least depth any cone reaches at p.
Nearest(tris, count, instances, p) ==
    LET all == UNION { InstanceDepths(tris, count, k, p) : k \in 0 .. instances - 1 }
    IN  IF all = {} THEN {}
        ELSE { k \in 0 .. instances - 1 :
                 Min(all) \in InstanceDepths(tris, count, k, p) }

\* C5: after the offscreen pass, a pixel where the least depth any cone
\* produces is below the cleared depth holds that depth and the colour of
\* the lowest instance index producing it, however many cones tie there; a
\* pixel no cone reaches below the cleared depth keeps the clear values.
C5_LowestIndexWinsTies ==
    pc = "present_setup" =>
        LET count == cone_res + 2
            tris == Primitives(gl, count, point_count)
        IN  \A p \in Pixels :
               LET near == Nearest(tris, count, point_count, p)
                   least == Min(InstanceDepths(tris, count, Min(near), p))
               IN  IF near # {} /\ least < DepthFar
                   THEN /\ gl.offColor[p] = StoreRGB(InstanceColor(Min(near)))
                        /\ gl.offDepth[p] = least
                   ELSE /\ gl.offColor[p] = ClearYellow
                        /\ gl.offDepth[p] = DepthFar

\* C5 witness: the pass is over and at some pixel two cones tie at the least
\* depth, below the cleared depth.
C5_Witness ==
    /\ pc = "present_setup"
    /\ \E p \in Pixels :
          LET tris == Primitives(gl, cone_res + 2, point_count)
              near == Nearest(tris, cone_res + 2, point_count, p)
          IN  /\ Cardinality(near) >= 2
              /\ gl.offDepth[p] < DepthFar
              /\ gl.offColor[p] = StoreRGB(InstanceColor(Min(near)))

\* C6 (the claim as stated): whenever the environment has produced a startup
\* failure the process has printed a diagnostic and exited with a nonzero
\* status without entering the loop, and status 0 means main returned
\* after a close with no failure.
C6_EveryFailureDiagnosed ==
    /\ fault # {} =>
          (pc = "exited" /\ stderr # << >> /\ exitStatus # 0 /\ calls.iter = 0)
    /\ (pc \in Ended /\ exitStatus = 0) => (pc = "returned" /\ fault = {})

\* C7 (the claim as stated): every offset component build_instances has
\* stored is >= -1 and < +1.
C7_OffsetsHalfOpen ==
    \A i \in DOMAIN inst_buf.data :
        - RAND_MAX <= inst_buf.data[i] /\ inst_buf.data[i] < RAND_MAX

\* C7 (amended): every offset component build_instances has stored, and
\* every one resident in the instance buffer object, is >= -1 and <= +1.
C7_OffsetsClosed ==
    /\ \A i \in DOMAIN inst_buf.data :
          - RAND_MAX <= inst_buf.data[i] /\ inst_buf.data[i] <= RAND_MAX
    /\ \A i \in DOMAIN gl.instVbo :
          - RAND_MAX <= gl.instVbo[i] /\ gl.instVbo[i] <= RAND_MAX
    /\ Len(inst_buf.data) > 0 => inst_buf.written = 0 .. 2 * point_count - 1

\* C7 witness: build_instances has stored the components +1 and -1.
C7_Witness ==
    /\ Len(inst_buf.data) = 2 * point_count
    /\ \E i \in DOMAIN inst_buf.data : inst_buf.data[i] = RAND_MAX
    /\ \E i \in DOMAIN inst_buf.data : inst_buf.data[i] = - RAND_MAX

\* C8: the offscreen pass leaves the default framebuffer, no program and no
\* vertex array bound; from then on no step of the running process changes
\* the offscreen colour or depth attachment; and at every draw of the
\* present pass the surface it is about to draw on is entirely black.
C8_OffscreenStatic ==
    /\ [](pc = "present_setup" => (gl.fbo = 0 /\ gl.program = 0 /\ gl.vao = 0))
    /\ [](pc = "glDrawArrays" =>
             \A p \in Pixels : gl.backColor[p] = << 0, 0, 0 >>
                                 /\ gl.backDepth[p] = DepthFar)
    /\ [][(calls.voronoi > 0 /\ pc' \notin Ended) =>
             (gl'.offColor = gl.offColor /\ gl'.offDepth = gl.offDepth)]_vars

\* C8 witness: MaxFrames frames have been drawn and the offscreen colour
\* attachment still holds a pixel a cone wrote, now also on the surface.
C8_Witness ==
    /\ pc = "glfwSwapBuffers"
    /\ calls.draw = MaxFrames
    /\ \E p \in Pixels : gl.offDepth[p] < DepthFar /\ gl.backColor[p] = gl.offColor[p]
    /\ \E p \in Pixels : gl.offColor[p] = ClearYellow /\ gl.backColor[p] = ClearYellow

\* C9: at every draw of the loop the default framebuffer, the blit program
\* and the quad are bound, texture unit 0 holds the offscreen colour
\* texture, the sampler is 0, the clear values are black and 1; and in each
\* iteration the clear precedes the draw, which precedes the swap.
C9_PresentState ==
    /\ pc = "glDrawArrays" =>
          /\ gl.fbo = 0
          /\ gl.program = blit_program
          /\ gl.vao = quad_vao
          /\ gl.tex0 = voronoi_tex
          /\ gl.sampler = 0
          /\ gl.clearColor = << 0, 0, 0 >>
          /\ gl.clearDepth = DepthFar
          /\ calls.clear = calls.draw + 1
    /\ pc = "glfwSwapBuffers" =>
          (calls.clear = calls.draw /\ calls.draw = calls.swap + 1)
    /\ pc = "glClear" => (calls.clear = calls.draw /\ calls.draw = calls.swap)
    /\ calls.swap <= calls.draw /\ calls.draw <= calls.clear
    /\ calls.clear <= calls.swap + 1

\* C9 witness: the draw of the second iteration is about to be issued.
C9_Witness ==
    pc = "glDrawArrays" /\ calls.iter = 2 /\ calls.swap = 1

\* C10: when malloc succeeded, build_cone(N) stored 3*(N+2) floats, each
\* inside the (N+2)*3 floats allocated and each index once; the apex has
\* z = -1 and ring vertices 1..N+1 have z = +1; and the offscreen draw's
\* vertex and instance counts are the numbers of vertices and offsets
\* resident in the two buffer objects.
C10_ConeBuffer ==
    /\ Len(cone_buf.data) > 0 =>
          /\ Len(cone_buf.data) = (cone_res + 2) * 3
          /\ ~ cone_buf.oob
          /\ cone_buf.stores = (cone_res + 2) * 3
          /\ cone_buf.written = 0 .. (cone_res + 2) * 3 - 1
          /\ cone_buf.data[3] = - One
          /\ \A v \in 1 .. cone_res + 1 : cone_buf.data[3 * v + 3] = One
          /\ gl.coneVbo = cone_buf.data
    /\ (calls.voronoi > 0 /\ pc \notin Ended) =>
          /\ gl.drawCount = cone_res + 2
          /\ gl.drawCount * 3 = Len(gl.coneVbo)
          /\ gl.drawInstances = point_count
          /\ gl.drawInstances * 2 = Len(gl.instVbo)

\* C10 witness: the offscreen draw has been issued from a cone buffer that
\* malloc provided, for the largest N.
C10_Witness ==
    /\ Len(cone_buf.data) > 0
    /\ cone_res = MaxConeRes
    /\ calls.voronoi = 1
    /\ gl.drawCount = MaxConeRes + 2

====
